---- MODULE Spec2Model ----
(***************************************************************************)
(* gover: install, build and launch released Go versions (src/main.go).    *)
(*                                                                         *)
(* Five specifications share this module:                                  *)
(*   Spec        the commands of main(): start-up (goroot, the creation of *)
(*               the root, pledge and unveil), `download V` (installVer,   *)
(*               fetchify, fetch, Untar, the build script), `list` and     *)
(*               `V args...` (the launch path), run one process after      *)
(*               another against a persistent directory tree under the     *)
(*               install root;                                             *)
(*   SpecStart   the start-up of one process for every platform, home      *)
(*               environment and state of the root;                        *)
(*   SpecOnce    one process from start-up to its exit, for every argument *)
(*               vector, with every step that is enabled taken in the end; *)
(*   SpecLaunch  the environment handed to the launched go command;        *)
(*   SpecEnv     dedupEnv applied to environments drawn from a bounded set.*)
(***************************************************************************)
EXTENDS Integers, Sequences, FiniteSets, TLC

VARIABLES
    fs,         \* the tree under the install root: path -> "none" | "dir" | file content
    pc,         \* position of the running process in main()/installVer()/fetchify()
    cmd,        \* os.Args[1] class of the running process: "none" | "download" | "list" | "launch"
    ver,        \* the version argument of the running process
    trace,      \* what the running process has done since start-up, in order
    status,     \* exit status of the process once pc = "done"
    unpacked,   \* versions for which some install call's Untar returned nil
    verified,   \* versions for which some install call's signature check succeeded
    okEver,     \* versions for which some install call returned nil
    env,        \* dedupEnv: the input slice; SpecLaunch: the inherited environment
    ci,         \* dedupEnv: the caseInsensitive flag
    out,        \* dedupEnv: the returned slice; SpecLaunch: cmd.Env
    envpc,      \* "input" | "composed" | "recomposed"; SpecLaunch: "inherited" | "launched"
    goos,       \* runtime.GOOS of the build that runs
    homeIn,     \* what the running process reads its home directory from
    argc,       \* len(os.Args) of the running process
    root,       \* the install root goroot("gover") returned, <<>> before that
    boot,       \* the start-up steps of main() the running process has taken
    printed,    \* the lines the running process has written, in order
    made,       \* <<path, mode>> of the directories its os.MkdirAll calls created
    cursor,     \* read offsets of the files tbz and sig: "closed" | "start" | "moved"
    resp,       \* status class of the responses to its two http.Get calls
    child       \* how the launched go command ended: kind "none" | "exited" | "signaled" | "nostart", and exit code

vars ==
    <<fs, pc, cmd, ver, trace, status, verified, unpacked, okEver, env, ci, out, envpc,
      goos, homeIn, argc, root, boot, printed, made, cursor, resp, child>>
procVars == <<goos, homeIn, argc, root, boot, printed, made, cursor, resp, child>>
envVars == <<env, ci, out, envpc>>

(***************************************************************************)
(* Paths.  A path is the sequence of its components below the install      *)
(* root; a version argument is used verbatim by filepath.Join, so it is    *)
(* the sequence of the components it is made of ("1/go" is <<"1","go">>).  *)
(***************************************************************************)
Versions == {<<"1">>, <<"2">>, <<"1", "go">>}

\* fmt.Sprintf("go%s.src.tar.gz", version), split at the separators of version
TarName(v) ==
    IF Len(v) = 1
    THEN <<"go" \o v[1] \o ".src.tar.gz">>
    ELSE <<"go" \o v[1]>> \o SubSeq(v, 2, Len(v) - 1) \o <<v[Len(v)] \o ".src.tar.gz">>

\* fp + ".asc"
AscName(v) ==
    LET t == TarName(v)
    IN  [t EXCEPT ![Len(t)] = @ \o ".asc"]

VerDir(v) == v
GoFP(v) == v \o TarName(v)
AscFP(v) == v \o AscName(v)
GoDir(v) == v \o <<"go">>
SrcDir(v) == v \o <<"go", "src">>
MakeScript(v) == v \o <<"go", "src", "make.bash">>
BinDir(v) == v \o <<"go", "bin">>
GoBin(v) == v \o <<"go", "bin", "go">>

Prefixes(p) == {SubSeq(p, 1, i) : i \in 0..Len(p)}
Parent(p) == SubSeq(p, 1, Len(p) - 1)

\* every path the commands can name for these versions
Paths ==
    UNION {Prefixes(GoFP(v)) \cup Prefixes(AscFP(v)) \cup Prefixes(MakeScript(v))
             \cup Prefixes(GoBin(v)) : v \in Versions}


(***************************************************************************)
(* The directory tree and the os calls the commands make on it.  A node    *)
(* exists only below a directory (TreeOK), so a lookup need not walk the   *)
(* path.                                                                   *)
(***************************************************************************)
FileContents == {"trunc", "genuine", "sig", "other", "script", "exe"}
Nodes == {"none", "dir"} \cup FileContents

\* os.Stat(p) returns a nil error
Stat(f, p) == f[p] # "none"

\* os.MkdirAll(p, 0755) returns nil: no component of p is a file
MkdirAllOK(f, p) == \A q \in Prefixes(p) : f[q] \in {"none", "dir"}
MkdirAll(f, p) == [q \in DOMAIN f |-> IF q \in Prefixes(p) THEN "dir" ELSE f[q]]

\* os.Create(p) can succeed: the parent is a directory and p is not one
CreateOK(f, p) == f[Parent(p)] = "dir" /\ f[p] # "dir"
WriteFile(f, p, c) == [f EXCEPT ![p] = c]

EmptyRoot == [p \in Paths |-> IF p = <<>> THEN "dir" ELSE "none"]

(***************************************************************************)
(* What the outside world can answer.                                      *)
(***************************************************************************)
\* response bodies of https://dl.google.com/go/go<V>.src.tar.gz and of its .asc:
\* the released bytes, or anything else (an altered archive, a signature over
\* other bytes, the body of a 404 page: http.Get reports no error for those)
TbzBodies == {"genuine", "other"}
SigBodies == {"sig", "other"}

\* where fetch stops: os.Create, http.Get, io.Copy, f.Seek, or nowhere
FetchOutcomes == {"createErr", "getErr", "copyErr", "seekErr", "ok"}

\* the file fetch leaves at its path b for each outcome
FetchWrites(f, p, o, body) ==
    CASE o = "createErr" -> f
      [] o \in {"getErr", "copyErr"} -> WriteFile(f, p, "trunc")
      [] OTHER -> WriteFile(f, p, body)

\* openpgp.CheckArmoredDetachedSignature(kr, tbz, sig, pkt) returns a nil error:
\* sig is a signature of exactly the bytes of tbz by a key of the embedded ring
CheckArmoredDetachedSignature(tbz, sig) == tbz = "genuine" /\ sig = "sig"

\* the entries of a released source archive, in archive order
ArchiveEntries(v) == <<GoDir(v), SrcDir(v), MakeScript(v)>>

\* Untar(tbz, dir) having written the first n entries of the archive
Untar(f, v, n) ==
    LET done == {ArchiveEntries(v)[i] : i \in 1..n}
    IN  [q \in DOMAIN f |->
            IF q = MakeScript(v) /\ q \in done THEN "script"
            ELSE IF q \in done THEN "dir"
            ELSE f[q]]

\* the build script having got as far as installing go/bin/go
BuildWrites(f, v) == WriteFile(MkdirAll(f, BinDir(v)), GoBin(v), "exe")

(***************************************************************************)
(* Start-up inputs: runtime.GOOS, the home-directory variables of the      *)
(* process environment, and what user.Current() answers.  A directory      *)
(* name is the sequence of its components, "/" first when it is absolute;  *)
(* the empty sequence is the empty string (an unset variable reads as it). *)
(***************************************************************************)
GOOSes == {"linux", "windows", "plan9"}
HomeDirs == {<<>>, <<"/", "h">>, <<".">>}
UserLookups ==
    { [err |-> TRUE, HomeDir |-> <<>>],
      [err |-> FALSE, HomeDir |-> <<>>],
      [err |-> FALSE, HomeDir |-> <<"/", "u">>] }
HomeIns == [getenv : [{"HOME", "home", "USERPROFILE"} -> HomeDirs], user : UserLookups]

NoHome ==
    [getenv |-> [n \in {"HOME", "home", "USERPROFILE"} |-> <<>>],
     user |-> [err |-> TRUE, HomeDir |-> <<>>]]
UnixHome == [NoHome EXCEPT !.getenv["HOME"] = <<"/", "h">>]

\* filepath.IsAbs
IsAbs(p) == Len(p) > 0 /\ p[1] = "/"

\* filepath.Join: the elements joined and cleaned of "." components
Join(a, b) == SelectSeq(a \o b, LAMBDA c : c # ".")

\* variant of homedir: a missing signal falls back to the current directory
homedirFallsBack(os, in) ==
    LET name == CASE os = "plan9" -> "home" [] os = "windows" -> "USERPROFILE" [] OTHER -> "HOME"
    IN  IF in.getenv[name] # <<>>
        THEN [dir |-> in.getenv[name], err |-> FALSE]
        ELSE [dir |-> <<".">>, err |-> FALSE]

\* homedir(): $home, %USERPROFILE%, or $HOME and then user.Current()
homedir(os, in) ==
    CASE os = "plan9" ->
           IF in.getenv["home"] # <<>>
           THEN [dir |-> in.getenv["home"], err |-> FALSE]
           ELSE [dir |-> <<>>, err |-> TRUE]
      [] os = "windows" ->
           IF in.getenv["USERPROFILE"] # <<>>
           THEN [dir |-> in.getenv["USERPROFILE"], err |-> FALSE]
           ELSE [dir |-> <<>>, err |-> TRUE]
      [] OTHER ->
           IF in.getenv["HOME"] # <<>>
           THEN [dir |-> in.getenv["HOME"], err |-> FALSE]
           ELSE IF ~in.user.err /\ in.user.HomeDir # <<>>
           THEN [dir |-> in.user.HomeDir, err |-> FALSE]
           ELSE [dir |-> <<>>, err |-> TRUE]

\* goroot(version): filepath.Join(home, "sdk", version), or homedir's error
goroot(os, in, version) ==
    LET h == homedir(os, in)
    IN  IF h.err
        THEN [dir |-> <<>>, err |-> TRUE]
        ELSE [dir |-> Join(h.dir, <<"sdk", version>>), err |-> FALSE]

\* variant of DirPerm: 0777
DirPermOpen == 7 * 64 + 7 * 8 + 7

\* the mode of os.MkdirAll(root, 0755) and os.MkdirAll(<root>/<version>, 0755)
DirPerm == 7 * 64 + 5 * 8 + 5

\* the directories an os.MkdirAll(p, perm) creates, each with the mode it asks for
MkdirAllMade(f, p, perm) == {<<q, perm>> : q \in {q \in Prefixes(p) : f[q] = "none"}}

\* the names a child of the root can have, sorted
TopNames == <<"1", "2">>

\* variant of ReadDir: only the names that hold a go/bin/go
ReadDirInstalled(f) == SelectSeq(TopNames, LAMBDA n : f[GoBin(<<n>>)] # "none")

\* os.ReadDir(root): the names of the children of the root, sorted by name
ReadDir(f) == SelectSeq(TopNames, LAMBDA n : f[<<n>>] # "none")

\* the classes of status line http.Get can return a response with
HttpClasses == {"2xx", "non2xx"}

\* exit statuses of a launched go command
MaxChildStatus == 2
ChildStatuses == 0..MaxChildStatus

NoChild == [kind |-> "none", code |-> 0]
Closed == [tbz |-> "closed", sig |-> "closed"]
NoResp == [tbz |-> "none", sig |-> "none"]
NoRoot == [p \in Paths |-> "none"]

(***************************************************************************)
(* Processes.  One command runs at a time (the program takes no lock and   *)
(* the design excludes concurrent invocations); a process is started when  *)
(* none is running and ends at pc = "done" with an exit status.            *)
(***************************************************************************)
Has(t, e) == \E i \in 1..Len(t) : t[i] = e
Count(t, e) == Cardinality({i \in 1..Len(t) : t[i] = e})

Idle == pc \in {"idle", "done"}

\* the environments the processes of Spec are started in: $HOME set, or no signal
ProcHomes == {UnixHome, NoHome}

\* a new process is started once the one before it has ended; c is the class
\* of os.Args[1], v the version argument, n is len(os.Args)
Start(c, v, n) ==
    /\ Idle
    /\ cmd' = c
    /\ ver' = v
    /\ argc' = n
    /\ homeIn' \in ProcHomes
    /\ root' = <<>>
    /\ boot' = <<>>
    /\ trace' = <<>>
    /\ printed' = <<>>
    /\ made' = {}
    /\ cursor' = Closed
    /\ resp' = NoResp
    /\ child' = NoChild
    /\ status' = 0
    /\ pc' = "goroot"
    /\ UNCHANGED <<fs, goos, verified, unpacked, okEver>>

\* the running process ends: log.Fatalf (1), os.Exit(0) or os.Exit(1)
Exit(ev, st) ==
    /\ pc' = "done"
    /\ trace' = Append(trace, ev)
    /\ status' = st
    /\ UNCHANGED <<cmd, ver, argc, goos, homeIn, root, boot>>

\* the running process goes on to the next step
Goto(ev, at) ==
    /\ pc' = at
    /\ trace' = Append(trace, ev)
    /\ UNCHANGED <<cmd, ver, status, argc, goos, homeIn, root, boot>>

\* a start-up step of main() is done
BootTo(ev, at) ==
    /\ pc' = at
    /\ boot' = Append(boot, ev)
    /\ UNCHANGED <<cmd, ver, status, argc, goos, homeIn, trace>>

\* a start-up step of main() ends the process with log.Fatalf
BootFail(ev) ==
    /\ pc' = "done"
    /\ boot' = Append(boot, ev)
    /\ status' = 1
    /\ UNCHANGED <<cmd, ver, argc, goos, homeIn, trace>>

Say(m) == printed' = Append(printed, m)
Quiet == printed' = printed

\* main: the branch taken on os.Args once start-up is done
Entry ==
    CASE argc = 1 -> "usage"
      [] cmd = "download" /\ argc = 3 -> "installVer"
      [] cmd = "download" -> "downloadUsage"
      [] cmd = "list" -> "list"
      [] OTHER -> "launchStat"

\* main: gover with no argument
RunNoArgs ==
    /\ Start("none", <<>>, 1)
    /\ UNCHANGED envVars

\* main: os.Args[1] == "download" with len(os.Args) == 3
RunDownload(v) ==
    /\ Start("download", v, 3)
    /\ UNCHANGED envVars

\* main: os.Args[1] == "download" with another number of arguments
RunDownloadArgs(n) ==
    /\ n # 3
    /\ Start("download", <<>>, n)
    /\ UNCHANGED envVars

\* main: os.Args[1] == "list"
RunList ==
    /\ Start("list", <<>>, 2)
    /\ UNCHANGED envVars

\* main: root, err := goroot("gover")
Goroot ==
    /\ pc = "goroot"
    /\ LET r == goroot(goos, homeIn, "gover")
       IN  IF r.err
           THEN /\ root' = <<>>
                /\ BootFail("goroot:fail")
                /\ Say("gover: failed to get home directory")
           ELSE /\ root' = r.dir
                /\ BootTo("goroot:ok", "mkroot")
                /\ Quiet
    /\ UNCHANGED <<fs, made, cursor, resp, child, verified, unpacked, okEver>>
    /\ UNCHANGED envVars

\* variant of MkRoot: the error of os.MkdirAll is dropped
MkRootErrIgnored ==
    /\ pc = "mkroot"
    /\ \E osOK \in BOOLEAN :
          IF osOK /\ MkdirAllOK(fs, <<>>)
          THEN /\ fs' = MkdirAll(fs, <<>>)
               /\ made' = made \cup MkdirAllMade(fs, <<>>, DirPerm)
               /\ BootTo("mkroot:ok", "pledge")
               /\ Quiet
          ELSE /\ fs' = fs
               /\ made' = made
               /\ BootTo("mkroot:fail", "pledge")
               /\ Quiet
    /\ UNCHANGED <<root, cursor, resp, child, verified, unpacked, okEver>>
    /\ UNCHANGED envVars

\* main: os.MkdirAll(root, 0755)
MkRoot ==
    /\ pc = "mkroot"
    /\ \E osOK \in BOOLEAN :
          IF osOK /\ MkdirAllOK(fs, <<>>)
          THEN /\ fs' = MkdirAll(fs, <<>>)
               /\ made' = made \cup MkdirAllMade(fs, <<>>, DirPerm)
               /\ BootTo("mkroot:ok", "pledge")
               /\ Quiet
          ELSE /\ fs' = fs
               /\ made' = made
               /\ BootFail("mkroot:fail")
               /\ Say("failed to create gover directory")
    /\ UNCHANGED <<root, cursor, resp, child, verified, unpacked, okEver>>
    /\ UNCHANGED envVars

\* main: protect.Pledge, protect.Unveil("/etc"), protect.Unveil(root),
\* protect.UnveilBlock (their results are dropped), then the branch on os.Args
Pledge ==
    /\ pc = "pledge"
    /\ BootTo("pledge", Entry)
    /\ Quiet
    /\ UNCHANGED <<fs, root, made, cursor, resp, child, verified, unpacked, okEver>>
    /\ UNCHANGED envVars

\* main: len(os.Args) == 1
Usage ==
    /\ pc = "usage"
    /\ Exit("usage", 1)
    /\ Say("gover: usage: gover [download|version|list]")
    /\ UNCHANGED <<fs, made, cursor, resp, child, verified, unpacked, okEver>>
    /\ UNCHANGED envVars

\* variant of DownloadUsage: the usage line is logged and main goes on
DownloadUsageGoesOn ==
    /\ pc = "downloadUsage"
    /\ Exit("usage:download", 0)
    /\ printed' = printed \o <<"gover: usage: gover download [version]", "Success">>
    /\ UNCHANGED <<fs, made, cursor, resp, child, verified, unpacked, okEver>>
    /\ UNCHANGED envVars

\* main: "download" with len(os.Args) # 3, the default case of the switch
DownloadUsage ==
    /\ pc = "downloadUsage"
    /\ Exit("usage:download", 1)
    /\ Say("gover: usage: gover download [version]")
    /\ UNCHANGED <<fs, made, cursor, resp, child, verified, unpacked, okEver>>
    /\ UNCHANGED envVars

\* variant of InstallStat: the result of os.Stat is not looked at, the fetch always runs
InstallStatAlwaysFetch ==
    /\ pc = "installVer"
    /\ IF Stat(fs, GoDir(ver))
       THEN Goto("stat:present", "mkdir")
       ELSE Goto("stat:absent", "mkdir")
    /\ Quiet
    /\ UNCHANGED <<fs, made, cursor, resp, child, verified, unpacked, okEver>>
    /\ UNCHANGED envVars

\* variant of InstallStat: an existing tree makes installVer return nil at once
InstallStatReturnEarly ==
    /\ pc = "installVer"
    /\ IF Stat(fs, GoDir(ver))
       THEN /\ Exit("stat:present", 0)
            /\ Say("Success")
            /\ okEver' = okEver \cup {ver}
       ELSE /\ Goto("stat:absent", "mkdir")
            /\ Quiet
            /\ okEver' = okEver
    /\ UNCHANGED <<fs, made, cursor, resp, child, verified, unpacked>>
    /\ UNCHANGED envVars

\* installVer: the os.Stat of the unpacked tree decides whether to fetch
InstallStat ==
    /\ pc = "installVer"
    /\ IF Stat(fs, GoDir(ver))
       THEN Goto("stat:present", "build")
       ELSE Goto("stat:absent", "mkdir")
    /\ Quiet
    /\ UNCHANGED <<fs, made, cursor, resp, child, verified, unpacked, okEver>>
    /\ UNCHANGED envVars

\* installVer: os.MkdirAll(filepath.Join(root, version), 0755)
InstallMkdir ==
    /\ pc = "mkdir"
    /\ \E osOK \in BOOLEAN :
          IF osOK /\ MkdirAllOK(fs, VerDir(ver))
          THEN /\ fs' = MkdirAll(fs, VerDir(ver))
               /\ made' = made \cup MkdirAllMade(fs, VerDir(ver), DirPerm)
               /\ Goto("mkdir:ok", "fetchTbz")
               /\ Quiet
          ELSE /\ fs' = fs
               /\ made' = made
               /\ Exit("mkdir:fail", 1)
               /\ Say("gover: failed to create source directory")
    /\ UNCHANGED <<cursor, resp, child, verified, unpacked, okEver>>
    /\ UNCHANGED envVars

\* the status class of the response a fetch outcome comes with: os.Create and
\* http.Get fail before there is one
RespOf(o) == IF o \in {"createErr", "getErr"} THEN {"none"} ELSE HttpClasses

\* fetchify: tbz, err := fetch(goURL, fp).  fetch looks at the error of
\* http.Get only, which is nil for a response of any status.
FetchTbz ==
    /\ pc = "fetchTbz"
    /\ \E o \in FetchOutcomes, body \in TbzBodies :
       \E code \in RespOf(o) :
          /\ (o # "createErr") => CreateOK(fs, GoFP(ver))
          /\ (code = "non2xx") => body = "other"
          /\ fs' = FetchWrites(fs, GoFP(ver), o, body)
          /\ resp' = [resp EXCEPT !.tbz = code]
          /\ IF o = "ok"
             THEN /\ Goto("fetchTbz:ok", "fetchSig")
                  /\ cursor' = [cursor EXCEPT !.tbz = "start"]
                  /\ Say("Fetching archive")
             ELSE /\ Exit("fetchTbz:fail", 1)
                  /\ cursor' = cursor
                  /\ printed' = printed \o <<"Fetching archive", "gover: failed to verify">>
    /\ UNCHANGED <<made, child, verified, unpacked, okEver>>
    /\ UNCHANGED envVars

\* variant of FetchSig: a failed fetch of the signature is tried again
FetchSigRetries ==
    /\ pc = "fetchSig"
    /\ Count(trace, "fetchSig:fail") < 2
    /\ \E o \in FetchOutcomes, body \in SigBodies :
       \E code \in RespOf(o) :
          /\ (o # "createErr") => CreateOK(fs, AscFP(ver))
          /\ (code = "non2xx") => body = "other"
          /\ fs' = FetchWrites(fs, AscFP(ver), o, body)
          /\ resp' = [resp EXCEPT !.sig = code]
          /\ IF o = "ok"
             THEN /\ Goto("fetchSig:ok", "verify")
                  /\ cursor' = [cursor EXCEPT !.sig = "start"]
                  /\ Say("Fetching signature")
             ELSE /\ Goto("fetchSig:fail", "fetchSig")
                  /\ cursor' = cursor
                  /\ Say("Fetching signature")
    /\ UNCHANGED <<made, child, verified, unpacked, okEver>>
    /\ UNCHANGED envVars

\* fetchify: sig, err := fetch(goURL+".asc", fp+".asc")
FetchSig ==
    /\ pc = "fetchSig"
    /\ \E o \in FetchOutcomes, body \in SigBodies :
       \E code \in RespOf(o) :
          /\ (o # "createErr") => CreateOK(fs, AscFP(ver))
          /\ (code = "non2xx") => body = "other"
          /\ fs' = FetchWrites(fs, AscFP(ver), o, body)
          /\ resp' = [resp EXCEPT !.sig = code]
          /\ IF o = "ok"
             THEN /\ Goto("fetchSig:ok", "verify")
                  /\ cursor' = [cursor EXCEPT !.sig = "start"]
                  /\ Say("Fetching signature")
             ELSE /\ Exit("fetchSig:fail", 1)
                  /\ cursor' = cursor
                  /\ printed' = printed \o <<"Fetching signature", "gover: failed to verify">>
    /\ UNCHANGED <<made, child, verified, unpacked, okEver>>
    /\ UNCHANGED envVars

\* variant of Verify: the error of the signature check is dropped
VerifyErrIgnored ==
    /\ pc = "verify"
    /\ IF CheckArmoredDetachedSignature(fs[GoFP(ver)], fs[AscFP(ver)])
       THEN /\ Goto("verify:ok", "seek")
            /\ verified' = verified \cup {ver}
       ELSE /\ Goto("verify:fail", "seek")
            /\ verified' = verified
    /\ cursor' = [tbz |-> "moved", sig |-> "moved"]
    /\ Say("Signature OK.")
    /\ UNCHANGED <<fs, made, resp, child, unpacked, okEver>>
    /\ UNCHANGED envVars

\* fetchify: the signature check gates everything after it.  A successful
\* check has read both files to their end; a failed one has read the
\* signature and may have stopped before it read the archive.
Verify ==
    /\ pc = "verify"
    /\ IF CheckArmoredDetachedSignature(fs[GoFP(ver)], fs[AscFP(ver)])
       THEN /\ Goto("verify:ok", "seek")
            /\ verified' = verified \cup {ver}
            /\ cursor' = [tbz |-> "moved", sig |-> "moved"]
            /\ Say("Signature OK.")
       ELSE /\ Exit("verify:fail", 1)
            /\ verified' = verified
            /\ \E t \in {"start", "moved"} : cursor' = [tbz |-> t, sig |-> "moved"]
            /\ Say("gover: failed to verify")
    /\ UNCHANGED <<fs, made, resp, child, unpacked, okEver>>
    /\ UNCHANGED envVars

\* variant of SeekTbz: the archive is left where the check stopped reading
SeekTbzNoRewind ==
    /\ pc = "seek"
    /\ \E osOK \in BOOLEAN :
          IF osOK
          THEN /\ Goto("seek:ok", "untar")
               /\ Quiet
          ELSE /\ Exit("seek:fail", 1)
               /\ Say("gover: failed to verify")
    /\ UNCHANGED <<fs, made, cursor, resp, child, verified, unpacked, okEver>>
    /\ UNCHANGED envVars

\* fetchify: tbz.Seek(0, 0); sig is not touched
SeekTbz ==
    /\ pc = "seek"
    /\ \E osOK \in BOOLEAN :
          IF osOK
          THEN /\ Goto("seek:ok", "untar")
               /\ cursor' = [cursor EXCEPT !.tbz = "start"]
               /\ Quiet
          ELSE /\ Exit("seek:fail", 1)
               /\ cursor' = cursor
               /\ Say("gover: failed to verify")
    /\ UNCHANGED <<fs, made, resp, child, verified, unpacked, okEver>>
    /\ UNCHANGED envVars

\* fetchify: return Untar(tbz, path.Dir(fp)); it may stop after any entry
Extract ==
    /\ pc = "untar"
    /\ \E n \in 0..Len(ArchiveEntries(ver)) :
          /\ fs' = Untar(fs, ver, n)
          /\ IF n = Len(ArchiveEntries(ver))
             THEN /\ Goto("untar:ok", "build")
                  /\ unpacked' = unpacked \cup {ver}
                  /\ Quiet
             ELSE /\ Exit("untar:fail", 1)
                  /\ unpacked' = unpacked
                  /\ Say("gover: failed to verify")
    /\ cursor' = [cursor EXCEPT !.tbz = "moved"]
    /\ UNCHANGED <<made, resp, child, verified, okEver>>
    /\ UNCHANGED envVars

\* variant of Build: the error of cmd.Run is dropped, installVer returns nil
BuildErrIgnored ==
    /\ pc = "build"
    /\ IF fs[MakeScript(ver)] # "script"
       THEN /\ fs' = fs
            /\ okEver' = okEver \cup {ver}
            /\ Exit("build:nostart", 0)
            /\ Say("Success")
       ELSE \E wrote \in BOOLEAN, exit0 \in BOOLEAN :
              /\ exit0 => wrote
              /\ fs' = IF wrote THEN BuildWrites(fs, ver) ELSE fs
              /\ okEver' = okEver \cup {ver}
              /\ Exit(IF exit0 THEN "build:ok" ELSE "build:fail", 0)
              /\ Say("Success")
    /\ UNCHANGED <<made, cursor, resp, child, verified, unpacked>>
    /\ UNCHANGED envVars

\* installVer: cmd.Run() of go/src/make.bash in go/src.  The script cannot be
\* started when it is not there; when it runs it is an opaque program that
\* may or may not get as far as installing go/bin/go, and exits zero only
\* after having installed it.  (The script name and the absence of a
\* GOROOT_BOOTSTRAP lookup are those of the default runtime.GOOS.)  main
\* logs the error, or the success line.
Build ==
    /\ pc = "build"
    /\ IF fs[MakeScript(ver)] # "script"
       THEN /\ fs' = fs
            /\ okEver' = okEver
            /\ Exit("build:nostart", 1)
            /\ Say("gover: failed to build go")
       ELSE \E wrote \in BOOLEAN, exit0 \in BOOLEAN :
              /\ exit0 => wrote
              /\ fs' = IF wrote THEN BuildWrites(fs, ver) ELSE fs
              /\ IF exit0
                 THEN /\ Exit("build:ok", 0)
                      /\ okEver' = okEver \cup {ver}
                      /\ Say("Success")
                 ELSE /\ Exit("build:fail", 1)
                      /\ okEver' = okEver
                      /\ Say("gover: failed to build go")
    /\ UNCHANGED <<made, cursor, resp, child, verified, unpacked>>
    /\ UNCHANGED envVars

\* variant of List: no os.Exit(0) after the names, main goes on to the launch path
ListFallsThrough ==
    /\ pc = "list"
    /\ \E osOK \in BOOLEAN :
          IF osOK /\ fs[<<>>] = "dir"
          THEN /\ Goto("list:ok", "launchStat")
               /\ status' = status
               /\ printed' = printed \o ReadDir(fs)
          ELSE /\ Exit("list:fail", 1)
               /\ Say("open root: error")
    /\ UNCHANGED <<fs, made, cursor, resp, child, verified, unpacked, okEver>>
    /\ UNCHANGED envVars

\* main: entries, err := os.ReadDir(root), then fmt.Println of each name
List ==
    /\ pc = "list"
    /\ \E osOK \in BOOLEAN :
          IF osOK /\ fs[<<>>] = "dir"
          THEN /\ Exit("list:ok", 0)
               /\ printed' = printed \o ReadDir(fs)
          ELSE /\ Exit("list:fail", 1)
               /\ Say("open root: error")
    /\ UNCHANGED <<fs, made, cursor, resp, child, verified, unpacked, okEver>>
    /\ UNCHANGED envVars

\* main: os.Args[1] is neither "download" nor "list": the launch path
RunLaunch(v) ==
    /\ Start("launch", v, 2)
    /\ UNCHANGED envVars

\* variant of LaunchStat: the launch path looks for the go directory, as installVer does
LaunchStatDir ==
    /\ pc = "launchStat"
    /\ IF Stat(fs, GoDir(ver))
       THEN /\ Goto("gobin:present", "exec")
            /\ Quiet
       ELSE /\ Exit("notDownloaded", 1)
            /\ Say("gover: not downloaded")
    /\ UNCHANGED <<fs, made, cursor, resp, child, verified, unpacked, okEver>>
    /\ UNCHANGED envVars

\* variant of LaunchStat: the result of os.Stat(gobin) is not looked at
LaunchStatIgnored ==
    /\ pc = "launchStat"
    /\ IF Stat(fs, GoBin(ver))
       THEN Goto("gobin:present", "exec")
       ELSE Goto("notDownloaded", "exec")
    /\ Quiet
    /\ UNCHANGED <<fs, made, cursor, resp, child, verified, unpacked, okEver>>
    /\ UNCHANGED envVars

\* main: os.Stat(gobin) decides whether the version counts as installed
LaunchStat ==
    /\ pc = "launchStat"
    /\ IF Stat(fs, GoBin(ver))
       THEN /\ Goto("gobin:present", "exec")
            /\ Quiet
       ELSE /\ Exit("notDownloaded", 1)
            /\ Say("gover: not downloaded")
    /\ UNCHANGED <<fs, made, cursor, resp, child, verified, unpacked, okEver>>
    /\ UNCHANGED envVars

\* variant of LaunchExec: the status of the child is handed on
LaunchExecSameStatus ==
    /\ pc = "exec"
    /\ \/ \E cs \in ChildStatuses :
             /\ child' = [kind |-> "exited", code |-> cs]
             /\ Exit(IF cs = 0 THEN "exec:ok" ELSE "exec:exitError", cs)
             /\ Quiet
       \/ /\ child' = [kind |-> "signaled", code |-> 0]
          /\ Exit("exec:exitError", 1)
          /\ Quiet
       \/ /\ child' = [kind |-> "nostart", code |-> 0]
          /\ Exit("exec:nostart", 1)
          /\ Say("gover: failed to execute")
    /\ UNCHANGED <<fs, made, cursor, resp, verified, unpacked, okEver>>
    /\ UNCHANGED envVars

\* main: cmd.Run() of gobin, then os.Exit(0) for a nil error, os.Exit(1) for
\* an *exec.ExitError (the child exited non-zero or was ended by a signal),
\* log.Fatalf for any other error (the child could not be started)
LaunchExec ==
    /\ pc = "exec"
    /\ \/ \E cs \in ChildStatuses :
             /\ child' = [kind |-> "exited", code |-> cs]
             /\ Exit(IF cs = 0 THEN "exec:ok" ELSE "exec:exitError", IF cs = 0 THEN 0 ELSE 1)
             /\ Quiet
       \/ /\ child' = [kind |-> "signaled", code |-> 0]
          /\ Exit("exec:exitError", 1)
          /\ Quiet
       \/ /\ child' = [kind |-> "nostart", code |-> 0]
          /\ Exit("exec:nostart", 1)
          /\ Say("gover: failed to execute")
    /\ UNCHANGED <<fs, made, cursor, resp, verified, unpacked, okEver>>
    /\ UNCHANGED envVars

\* the process is ended from outside (a signal) between two steps
Interrupt ==
    /\ ~Idle
    /\ Exit("killed", 2)
    /\ Quiet
    /\ UNCHANGED <<fs, made, cursor, resp, child, verified, unpacked, okEver>>
    /\ UNCHANGED envVars

EnvOff ==
    /\ env = <<>>
    /\ ci = FALSE
    /\ out = <<>>
    /\ envpc = "off"

Init ==
    /\ fs = NoRoot
    /\ goos = "linux"
    /\ pc = "idle"
    /\ cmd = "none"
    /\ ver = <<>>
    /\ argc = 0
    /\ homeIn = NoHome
    /\ root = <<>>
    /\ boot = <<>>
    /\ trace = <<>>
    /\ printed = <<>>
    /\ made = {}
    /\ cursor = Closed
    /\ resp = NoResp
    /\ child = NoChild
    /\ status = 0
    /\ verified = {}
    /\ unpacked = {}
    /\ okEver = {}
    /\ EnvOff

Next ==
    \/ RunNoArgs
    \/ \E v \in Versions : RunDownload(v)
    \/ \E n \in {2, 4} : RunDownloadArgs(n)
    \/ RunList
    \/ \E v \in Versions : RunLaunch(v)
    \/ Goroot
    \/ MkRoot
    \/ Pledge
    \/ Usage
    \/ DownloadUsage
    \/ InstallStat
    \/ InstallMkdir
    \/ FetchTbz
    \/ FetchSig
    \/ Verify
    \/ SeekTbz
    \/ Extract
    \/ Build
    \/ List
    \/ LaunchStat
    \/ LaunchExec
    \/ Interrupt

Spec == Init /\ [][Next]_vars

\* the tree is well formed: whatever exists lies in a directory
TreeOK == \A p \in Paths : (p # <<>> /\ fs[p] # "none") => fs[Parent(p)] = "dir"

(***************************************************************************)
(* SpecStart: the start-up of one process, main() down to the branch on    *)
(* os.Args, for every platform, home environment and state of the root.    *)
(***************************************************************************)
\* the root is absent, is a directory, or its name is taken by a file
RootStates == {NoRoot, EmptyRoot, [NoRoot EXCEPT ![<<>>] = "other"]}

\* os.Args of the process: class of os.Args[1], version argument, len(os.Args)
ArgVectors ==
    { <<"none", <<>>, 1>>, <<"download", <<"1">>, 3>>, <<"download", <<>>, 2>>,
      <<"list", <<>>, 2>>, <<"launch", <<"1">>, 2>> }

InitStart ==
    /\ fs \in RootStates
    /\ goos \in GOOSes
    /\ homeIn \in HomeIns
    /\ \E a \in ArgVectors : cmd = a[1] /\ ver = a[2] /\ argc = a[3]
    /\ pc = "goroot"
    /\ root = <<>>
    /\ boot = <<>>
    /\ trace = <<>>
    /\ printed = <<>>
    /\ made = {}
    /\ cursor = Closed
    /\ resp = NoResp
    /\ child = NoChild
    /\ status = 0
    /\ verified = {}
    /\ unpacked = {}
    /\ okEver = {}
    /\ EnvOff

NextStart ==
    \/ Goroot
    \/ MkRoot
    \/ Pledge

SpecStart == InitStart /\ [][NextStart]_vars

(***************************************************************************)
(* One process from start-up to exit.  main() is one sequential thread:    *)
(* every call it makes returns, so a step that stays enabled is taken.     *)
(***************************************************************************)
\* a root in which version 1 was installed by an earlier process
BuiltRoot == BuildWrites(Untar(MkdirAll(EmptyRoot, VerDir(<<"1">>)), <<"1">>, 3), <<"1">>)

\* the tree the process finds, and the versions earlier processes installed
OnceTrees ==
    { [tree |-> NoRoot, built |-> {}], [tree |-> EmptyRoot, built |-> {}],
      [tree |-> BuiltRoot, built |-> {<<"1">>}] }

\* os.Args of the process: every branch of main, `download` with 2, 3 and 4
\* arguments, a version that is installed and one that is not
OnceArgs ==
    ArgVectors \cup { <<"download", <<>>, 4>>, <<"download", <<"2">>, 3>>,
                      <<"launch", <<"2">>, 2>>, <<"launch", <<"1">>, 3>> }

InitOnce ==
    /\ \E t \in OnceTrees :
          /\ fs = t.tree
          /\ verified = t.built
          /\ unpacked = t.built
          /\ okEver = t.built
    /\ goos = "linux"
    /\ homeIn \in ProcHomes
    /\ \E a \in OnceArgs : cmd = a[1] /\ ver = a[2] /\ argc = a[3]
    /\ pc = "goroot"
    /\ root = <<>>
    /\ boot = <<>>
    /\ trace = <<>>
    /\ printed = <<>>
    /\ made = {}
    /\ cursor = Closed
    /\ resp = NoResp
    /\ child = NoChild
    /\ status = 0
    /\ EnvOff

\* the steps of main()
StepOnce ==
    \/ Goroot
    \/ MkRoot
    \/ Pledge
    \/ Usage
    \/ DownloadUsage
    \/ InstallStat
    \/ InstallMkdir
    \/ FetchTbz
    \/ FetchSig
    \/ Verify
    \/ SeekTbz
    \/ Extract
    \/ Build
    \/ List
    \/ LaunchStat
    \/ LaunchExec

NextOnce ==
    \/ StepOnce
    \/ Interrupt

SpecOnce == InitOnce /\ [][NextOnce]_vars /\ WF_vars(StepOnce)


(***************************************************************************)
(* dedupEnv.  A string is the sequence of its characters; an environment   *)
(* is a sequence of strings.                                               *)
(***************************************************************************)
\* strings.Index(s, c) for a one-character c: the 0-based index of its first
\* occurrence, or -1
Index(s, c) ==
    IF \E i \in 1..Len(s) : s[i] = c
    THEN (CHOOSE i \in 1..Len(s) : s[i] = c /\ \A j \in 1..(i - 1) : s[j] # c) - 1
    ELSE -1

\* strings.ToLower on the letters and the names the inputs are made of
LowerOf(c) ==
    CASE c = "P" -> "p"
      [] c = "G" -> "g"
      [] c = "PATH" -> "path"
      [] c = "Path" -> "path"
      [] c = "GOROOT" -> "goroot"
      [] c = "FOO" -> "foo"
      [] OTHER -> c
ToLower(s) == [i \in 1..Len(s) |-> LowerOf(s[i])]

\* variant of Passes: only eq == 0 passes, an entry with no "=" gets a key
PassesEmptyKeyOnly(kv) == Index(kv, "=") = 0

\* dedupEnv: eq < 1, the entry is appended as it is and not remembered
Passes(kv) == Index(kv, "=") < 1

\* variant of KeyOf: the flag is ignored, keys are compared as written
KeyOfExact(caseInsensitive, kv) == SubSeq(kv, 1, Index(kv, "="))

\* variant of KeyOf: the flag is ignored, keys are always lowered
KeyOfLowered(caseInsensitive, kv) == ToLower(SubSeq(kv, 1, Index(kv, "=")))

\* dedupEnv: k := kv[:eq], lowered when caseInsensitive
KeyOf(caseInsensitive, kv) ==
    LET k == SubSeq(kv, 1, Index(kv, "="))
    IN  IF caseInsensitive THEN ToLower(k) ELSE k

\* variant of Overwrite: a duplicate is appended
OverwriteAppends(o, dupIdx, kv) == Append(o, kv)

\* variant of Overwrite: a duplicate is dropped, the first value stays
OverwriteKeepsFirst(o, dupIdx, kv) == o

\* variant of Overwrite: a duplicate replaces the entry and moves it to the end
OverwriteMovesLast(o, dupIdx, kv) ==
    SubSeq(o, 1, dupIdx) \o SubSeq(o, dupIdx + 2, Len(o)) \o <<kv>>

\* dedupEnv: out[dupIdx] = kv, with dupIdx 0-based
Overwrite(o, dupIdx, kv) == [o EXCEPT ![dupIdx + 1] = kv]

\* dedupEnv's loop from the i-th entry on; saw maps a key to its 0-based index in o
RECURSIVE DedupLoop(_, _, _, _, _)
DedupLoop(caseInsensitive, e, i, o, saw) ==
    IF i > Len(e) THEN o
    ELSE LET kv == e[i]
         IN  IF Passes(kv)
             THEN DedupLoop(caseInsensitive, e, i + 1, Append(o, kv), saw)
             ELSE LET k == KeyOf(caseInsensitive, kv)
                  IN  IF k \in DOMAIN saw
                      THEN DedupLoop(caseInsensitive, e, i + 1, Overwrite(o, saw[k], kv), saw)
                      ELSE DedupLoop(caseInsensitive, e, i + 1, Append(o, kv),
                                     saw @@ (k :> Len(o)))

dedupEnv(caseInsensitive, e) == DedupLoop(caseInsensitive, e, 1, <<>>, [k \in {} |-> 0])

\* the environment entries the inputs are drawn from
Entries ==
    { <<"P", "=", "1">>,        \* P=1
      <<"P", "=", "2">>,        \* P=2
      <<"p", "=", "1">>,        \* p=1
      <<"p", "=", "3">>,        \* p=3
      <<"G", "=", "1">>,        \* G=1
      <<"G", "=", "2">>,        \* G=2
      <<"P", "=">>,             \* P=    (empty value)
      <<"P", "=", "=", "1">>,  \* P==1  (the value holds a "=")
      <<"=", "1">>,             \* =1    (empty key)
      <<"=", "2">>,             \* =2
      <<"P">>,                  \* P     (no "=")
      <<>> }                    \* the empty string

MaxEnvLen == 3

Envs == UNION {[1..n -> Entries] : n \in 0..MaxEnvLen}

PipelineOff ==
    /\ fs = EmptyRoot
    /\ goos = "linux"
    /\ pc = "off"
    /\ cmd = "none"
    /\ ver = <<>>
    /\ argc = 0
    /\ homeIn = NoHome
    /\ root = <<>>
    /\ boot = <<>>
    /\ trace = <<>>
    /\ printed = <<>>
    /\ made = {}
    /\ cursor = Closed
    /\ resp = NoResp
    /\ child = NoChild
    /\ status = 0
    /\ verified = {}
    /\ unpacked = {}
    /\ okEver = {}

InitEnv ==
    /\ PipelineOff
    /\ env \in Envs
    /\ ci \in BOOLEAN
    /\ out = <<>>
    /\ envpc = "input"

\* cmd.Env = dedupEnv(caseInsensitiveEnv, ...)
Compose ==
    /\ envpc = "input"
    /\ out' = dedupEnv(ci, env)
    /\ envpc' = "composed"
    /\ UNCHANGED <<env, ci>>
    /\ UNCHANGED <<fs, pc, cmd, ver, trace, status, verified, unpacked, okEver>>
    /\ UNCHANGED procVars

\* dedupEnv applied to its own result
Recompose ==
    /\ envpc = "composed"
    /\ out' = dedupEnv(ci, out)
    /\ envpc' = "recomposed"
    /\ UNCHANGED <<env, ci>>
    /\ UNCHANGED <<fs, pc, cmd, ver, trace, status, verified, unpacked, okEver>>
    /\ UNCHANGED procVars

NextEnv ==
    \/ Compose
    \/ Recompose

SpecEnv == InitEnv /\ [][NextEnv]_vars

(***************************************************************************)
(* SpecLaunch: the environment main() hands to the launched go command,    *)
(* for every platform and inherited environment.  A string is here the     *)
(* sequence of its pieces: a variable name, "=", a list separator, a path  *)
(* component or a whole inherited value is one piece.                      *)
(***************************************************************************)
\* const caseInsensitiveEnv = runtime.GOOS == "windows"
caseInsensitiveEnv == goos = "windows"

\* string(filepath.ListSeparator)
ListSeparator == IF goos = "windows" THEN ";" ELSE ":"

\* the entries an inherited environment is drawn from
LaunchEntries ==
    { <<"PATH", "=", "/bin">>,
      <<"PATH", "=", "/usr">>,
      <<"PATH", "=">>,
      <<"Path", "=", "/w">>,
      <<"GOROOT", "=", "/old">>,
      <<"GOROOT", "=", "/older">>,
      <<"FOO", "=", "1">>,
      <<"FOO", "=", "2">>,
      <<"=", "C:">>,
      <<"FOO">> }

\* the positions of e that name the variable k as the platform compares names
Naming(e, k) ==
    {i \in 1..Len(e) : ~Passes(e[i]) /\ KeyOf(caseInsensitiveEnv, e[i]) = KeyOf(caseInsensitiveEnv, k \o <<"=">>)}

\* the environment the process was started with holds a name once, except
\* where the platform lets exec hand over an arbitrary list (the default family)
Inheritable(e) ==
    goos \in {"windows", "plan9"} =>
        \A i, j \in 1..Len(e) :
            (i # j /\ Index(e[i], "=") >= 0 /\ Index(e[j], "=") >= 0)
                => KeyOf(caseInsensitiveEnv, e[i]) # KeyOf(caseInsensitiveEnv, e[j])

\* os.Environ(): the entries the process was started with; the runtime of the
\* default family has blanked every later entry of a name already seen and
\* leaves the blanked and the empty entries out
Environ(e) ==
    LET keep(i) ==
            /\ e[i] # <<>>
            /\ Index(e[i], "=") >= 0 =>
                  \A j \in 1..(i - 1) :
                      Index(e[j], "=") >= 0 =>
                          SubSeq(e[j], 1, Index(e[j], "=")) # SubSeq(e[i], 1, Index(e[i], "="))
        kept == {i \in 1..Len(e) : keep(i)}
        RECURSIVE pick(_)
        pick(i) == IF i > Len(e) THEN <<>>
                   ELSE IF i \in kept THEN <<e[i]>> \o pick(i + 1)
                   ELSE pick(i + 1)
    IN  pick(1)

\* os.Getenv(k): the value of the first entry that names k, "" when none does
Getenv(e, k) ==
    IF Naming(e, k) = {} THEN <<>>
    ELSE LET i == CHOOSE i \in Naming(e, k) : \A j \in Naming(e, k) : i <= j
         IN  SubSeq(e[i], Index(e[i], "=") + 2, Len(e[i]))

\* the root of the processes of SpecLaunch
LaunchRoot == Join(<<"/", "h">>, <<"sdk", "gover">>)

\* "GOROOT=" + filepath.Join(root, version, "go")
GorootEntry(v) == <<"GOROOT", "=">> \o LaunchRoot \o GoDir(v)

\* newPath: filepath.Join(root, version, "go", "bin"), then the separator
\* and $PATH when $PATH is not empty
NewPath(e, v) ==
    LET p == Getenv(e, <<"PATH">>)
    IN  IF p # <<>> THEN LaunchRoot \o BinDir(v) \o <<ListSeparator>> \o p
        ELSE LaunchRoot \o BinDir(v)

\* "PATH=" + newPath
PathEntry(e, v) == <<"PATH", "=">> \o NewPath(e, v)

InitLaunch ==
    /\ fs = EmptyRoot
    /\ goos \in GOOSes
    /\ pc = "off"
    /\ cmd = "none"
    /\ ver = <<>>
    /\ argc = 0
    /\ homeIn = NoHome
    /\ root = LaunchRoot
    /\ boot = <<>>
    /\ trace = <<>>
    /\ printed = <<>>
    /\ made = {}
    /\ cursor = Closed
    /\ resp = NoResp
    /\ child = NoChild
    /\ status = 0
    /\ verified = {}
    /\ unpacked = {}
    /\ okEver = {}
    /\ env \in UNION {[1..n -> LaunchEntries] : n \in 0..MaxEnvLen}
    /\ Inheritable(env)
    /\ ci = caseInsensitiveEnv
    /\ out = <<>>
    /\ envpc = "inherited"

\* variant of LaunchEnv: the two entries are appended and nothing is removed
LaunchEnvAppends(v) ==
    /\ envpc = "inherited"
    /\ ver' = v
    /\ out' = Environ(env) \o <<GorootEntry(v), PathEntry(env, v)>>
    /\ envpc' = "launched"
    /\ UNCHANGED <<env, ci>>
    /\ UNCHANGED <<fs, pc, cmd, trace, status, verified, unpacked, okEver>>
    /\ UNCHANGED procVars

\* main: cmd.Env = dedupEnv(caseInsensitiveEnv,
\*     append(os.Environ(), "GOROOT="+gorootPath, "PATH="+newPath))
LaunchEnv(v) ==
    /\ envpc = "inherited"
    /\ ver' = v
    /\ out' = dedupEnv(caseInsensitiveEnv,
                       Environ(env) \o <<GorootEntry(v), PathEntry(env, v)>>)
    /\ envpc' = "launched"
    /\ UNCHANGED <<env, ci>>
    /\ UNCHANGED <<fs, pc, cmd, trace, status, verified, unpacked, okEver>>
    /\ UNCHANGED procVars

NextLaunch == \E v \in Versions : LaunchEnv(v)

SpecLaunch == InitLaunch /\ [][NextLaunch]_vars

(***************************************************************************)
(* Claims about the install and launch pipeline, checked under Spec.       *)
(***************************************************************************)
InstallCall == cmd = "download"
\* start-up is over and main has branched on os.Args
Dispatched == Has(boot, "pledge")
FetchEvents == {"fetchTbz:ok", "fetchTbz:fail", "fetchSig:ok", "fetchSig:fail"}
VerifyEvents == {"verify:ok", "verify:fail"}
UntarEvents == {"untar:ok", "untar:fail"}
BuildEvents == {"build:ok", "build:fail", "build:nostart"}
HasAny(t, es) == \E i \in 1..Len(t) : t[i] \in es

\* C1: within one install call the archive is extracted only after the
\* signature check of that call succeeded; when the check fails the call
\* returns an error, neither Untar nor the build script is invoked, and the
\* unpacked tree, absent when the call began, is still absent.
C1_VerifyGatesExtraction ==
    InstallCall =>
        /\ (pc = "untar" \/ HasAny(trace, UntarEvents)) => Has(trace, "verify:ok")
        /\ Has(trace, "verify:fail") =>
              /\ pc = "done"
              /\ status = 1
              /\ ~HasAny(trace, UntarEvents)
              /\ ~HasAny(trace, BuildEvents)
              /\ Has(trace, "stat:absent")
              /\ ~Stat(fs, GoDir(ver))

C1_Witness ==
    /\ InstallCall
    /\ pc = "done"
    /\ Has(trace, "verify:fail")
    /\ fs[GoFP(ver)] = "other"
    /\ fs[AscFP(ver)] = "sig"

\* C2: from an empty root, after any download commands, the unpacked tree
\* <root>/<V>/go exists only if some install(V) call had its signature check
\* succeed, and V's build script has run only if such a check succeeded.
C2_TreeOnlyIfVerified ==
    /\ \A v \in Versions : Stat(fs, GoDir(v)) => v \in verified
    /\ (InstallCall /\ (Has(trace, "build:ok") \/ Has(trace, "build:fail")))
          => ver \in verified

\* C3: while no install(V) call has returned success, a launch of V does not
\* execute V's binary and fails as not installed; and no install(V) returns
\* success without a build that exited zero.
C3_PartialNeverComplete ==
    /\ (cmd = "launch" /\ ver \notin okEver) =>
          /\ pc # "exec"
          /\ ~HasAny(trace, {"gobin:present", "exec:ok", "exec:exitError", "exec:nostart"})
          /\ (pc = "done" /\ Dispatched /\ ~Has(trace, "killed")) =>
                (status # 0 /\ Has(trace, "notDownloaded"))
    /\ (InstallCall /\ pc = "done" /\ status = 0) => Has(trace, "build:ok")

\* C4: an install call that finds <root>/<V>/go present makes no fetch, no
\* signature check and no extraction, and leaves the archive and signature
\* files as they are; so once one install(V) has completed extraction, a
\* following install(V) adds no fetch and no check to the one of that call.
C4_NoRefetchState ==
    InstallCall =>
        /\ \A e \in FetchEvents \cup VerifyEvents : Count(trace, e) <= 1
        /\ Has(trace, "stat:present") =>
              /\ pc \in {"build", "done"}
              /\ ~HasAny(trace, FetchEvents \cup VerifyEvents \cup UntarEvents)
              /\ ~HasAny(trace, {"mkdir:ok", "mkdir:fail", "seek:ok", "seek:fail"})
        /\ (ver \in unpacked /\ ~Has(trace, "untar:ok")) =>
              /\ ~Has(trace, "stat:absent")
              /\ ~HasAny(trace, FetchEvents \cup VerifyEvents)

C4_NoRefetchStep ==
    (InstallCall /\ Has(trace, "stat:present") /\ ~Idle) =>
        /\ fs'[GoFP(ver)] = fs[GoFP(ver)]
        /\ fs'[AscFP(ver)] = fs[AscFP(ver)]

C4_NoRefetch == []C4_NoRefetchState /\ [][C4_NoRefetchStep]_vars

C4_Witness ==
    /\ InstallCall
    /\ pc = "done"
    /\ ver \in unpacked
    /\ trace = <<"stat:present", "build:ok">>
    /\ fs[GoFP(ver)] = "genuine"

HasEq(kv) == Index(kv, "=") >= 0
HasKey(kv) == Index(kv, "=") >= 1
TextBeforeEq(kv) == SubSeq(kv, 1, Index(kv, "="))
SameKey(c, a, b) ==
    IF c THEN ToLower(TextBeforeEq(a)) = ToLower(TextBeforeEq(b))
         ELSE TextBeforeEq(a) = TextBeforeEq(b)

Composed == envpc = "composed"

\* positions of e holding an entry that satisfies T and has the key of kv
WithKey(T(_), c, e, kv) == {m \in 1..Len(e) : T(e[m]) /\ SameKey(c, e[m], kv)}
Last(S) == CHOOSE m \in S : \A n \in S : n <= m
\* e[i] is the first entry of e with its key
IsFirst(T(_), c, e, i) == \A n \in 1..(i - 1) : T(e[n]) => ~SameKey(c, e[n], e[i])
\* positions of e that take a new place in the result: entries outside T,
\* and first occurrences of a key
NewPlaces(T(_), c, e) == {m \in 1..Len(e) : ~T(e[m]) \/ IsFirst(T, c, e, m)}
\* the place in the result taken when e[i] was read
Slot(T(_), c, e, i) == Cardinality({m \in NewPlaces(T, c, e) : m <= i})

NoDuplicates(T(_)) ==
    \A i, j \in 1..Len(out) :
        (i < j /\ T(out[i]) /\ T(out[j])) => ~SameKey(ci, out[i], out[j])

\* C6 as stated: the result holds no two entries that have a "=" and the
\* same key under the comparison the flag selects.
C6_NoDuplicateKeys == Composed => NoDuplicates(HasEq)

\* C6 amended: the result holds no two entries that have a non-empty key and
\* the same key under the comparison the flag selects.
C6_NoDuplicateNonEmptyKeys == Composed => NoDuplicates(HasKey)

C6_Witness ==
    /\ Composed
    /\ ci
    /\ env = << <<"P", "=", "1">>, <<"p", "=", "3">>, <<"P", "=", "2">> >>
    /\ out = << <<"P", "=", "2">> >>

LastWins(T(_)) ==
    \A i \in 1..Len(env) :
        T(env[i]) =>
            /\ Cardinality(WithKey(T, ci, out, env[i])) = 1
            /\ \A j \in WithKey(T, ci, out, env[i]) :
                  out[j] = env[Last(WithKey(T, ci, env, env[i]))]

\* C7 as stated: for every key of an input entry that has a "=", the result
\* holds exactly one entry with that key, and it is the last input entry
\* with that key.
C7_LastWriteWins == Composed => LastWins(HasEq)

\* C7 amended: the same for every non-empty key.
C7_LastWriteWinsNonEmpty == Composed => LastWins(HasKey)

C7_Witness ==
    /\ Composed
    /\ ~ci
    /\ env = << <<"P", "=", "1">>, <<"G", "=", "1">>, <<"P", "=", "2">> >>
    /\ out[1] = <<"P", "=", "2">>
    /\ Len(out) = 2

FirstSeenOrder(T(_)) ==
    /\ Len(out) = Cardinality(NewPlaces(T, ci, env))
    /\ \A i, j \in 1..Len(env) :
          (/\ T(env[i]) /\ IsFirst(T, ci, env, i)
           /\ T(env[j]) /\ IsFirst(T, ci, env, j)
           /\ i < j)
          => \E a, b \in 1..Len(out) :
                /\ WithKey(T, ci, out, env[i]) = {a}
                /\ WithKey(T, ci, out, env[j]) = {b}
                /\ a < b
                /\ a = Slot(T, ci, env, i)
                /\ b = Slot(T, ci, env, j)

\* C8 as stated: when key A first occurs before key B first occurs, the one
\* entry of A precedes the one entry of B in the result, each at the place
\* its key took when first read (nothing is moved or appended), for the keys
\* of the entries that have a "=".
C8_FirstSeenOrder == Composed => FirstSeenOrder(HasEq)

\* C8 amended: the same for the non-empty keys.
C8_FirstSeenOrderNonEmpty == Composed => FirstSeenOrder(HasKey)

C8_Witness ==
    /\ Composed
    /\ env = << <<"P", "=", "1">>, <<"G", "=", "1">>, <<"P", "=", "2">> >>
    /\ out = << <<"P", "=", "2">>, <<"G", "=", "1">> >>

\* env read as a base of k entries followed by overrides, each override an
\* assignment to a name the base already assigns
IsOverrideSplit(k) ==
    /\ k \in 1..(Len(env) - 1)
    /\ \A m \in (k + 1)..Len(env) :
          /\ HasKey(env[m])
          /\ \E n \in 1..k : HasKey(env[n]) /\ SameKey(ci, env[n], env[m])

\* C9: dedupEnv(c, dedupEnv(c, env)) = dedupEnv(c, env); and for a base that
\* already assigns the override names, followed by the overrides, the result
\* holds one entry per override name, with the override value, at the place
\* that name took when the base first assigned it.
C9_Idempotent ==
    /\ envpc = "recomposed" => out = dedupEnv(ci, env)
    /\ envpc \in {"composed", "recomposed"} =>
          \A k \in 1..Len(env) :
              IsOverrideSplit(k) =>
                  \A m \in (k + 1)..Len(env) :
                      LET base == SubSeq(env, 1, k)
                          first == CHOOSE n \in WithKey(HasKey, ci, base, env[m]) :
                                      \A n2 \in WithKey(HasKey, ci, base, env[m]) : n <= n2
                          place == Slot(HasKey, ci, base, first)
                      IN  /\ WithKey(HasKey, ci, out, env[m]) = {place}
                          /\ out[place] = env[Last(WithKey(HasKey, ci, env, env[m]))]

C9_Witness ==
    /\ envpc = "recomposed"
    /\ ci
    /\ env = << <<"G", "=", "1">>, <<"P", "=", "1">>, <<"p", "=", "3">> >>
    /\ IsOverrideSplit(2)
    /\ out = << <<"G", "=", "1">>, <<"p", "=", "3">> >>

\* C10: with the flag set, keys that differ only in letter case are one key
\* and the result keeps one entry for it, the last one written, spelled as
\* written; with the flag clear they are two keys and both stay.
C10_CaseRule ==
    Composed =>
        \A i, j \in 1..Len(env) :
            (/\ HasEq(env[i]) /\ HasEq(env[j])
             /\ TextBeforeEq(env[i]) # TextBeforeEq(env[j])
             /\ ToLower(TextBeforeEq(env[i])) = ToLower(TextBeforeEq(env[j])))
            => IF ci
               THEN /\ Cardinality(WithKey(HasEq, TRUE, out, env[i])) = 1
                    /\ \A n \in WithKey(HasEq, TRUE, out, env[i]) :
                          out[n] = env[Last(WithKey(HasEq, TRUE, env, env[i]))]
               ELSE /\ \E a \in 1..Len(out) :
                          out[a] = env[Last(WithKey(HasEq, FALSE, env, env[i]))]
                    /\ \E b \in 1..Len(out) :
                          out[b] = env[Last(WithKey(HasEq, FALSE, env, env[j]))]
                    /\ Cardinality(WithKey(HasEq, TRUE, out, env[i])) = 2

C10_Witness ==
    /\ Composed
    /\ ci
    /\ env = << <<"P", "=", "1">>, <<"p", "=", "3">> >>
    /\ out = << <<"p", "=", "3">> >>

\* the entry has no "=" at all
NoEq(kv) == Index(kv, "=") = -1

\* C11: the entries with no "=" come out unchanged, once per occurrence and
\* in their input order, each at the place it took when read (never merged
\* with an equal entry nor with an entry whose key is its text), and the
\* entries with a "=" come out as if the entries without one were not there.
C11_BarePassThrough ==
    Composed =>
        /\ SelectSeq(out, NoEq) = SelectSeq(env, NoEq)
        /\ \A i \in 1..Len(env) :
              NoEq(env[i]) => out[Slot(HasKey, ci, env, i)] = env[i]
        /\ SelectSeq(out, HasEq) = dedupEnv(ci, SelectSeq(env, HasEq))

C11_Witness ==
    /\ Composed
    /\ env = << <<"P">>, <<"P", "=", "1">>, <<"P">> >>
    /\ out = env

(***************************************************************************)
(* Claims about the launch path, checked under Spec.                       *)
(***************************************************************************)
LaunchCall == cmd = "launch"
IsUnder(p, d) == Len(p) >= Len(d) /\ SubSeq(p, 1, Len(d)) = d
Killed == Has(trace, "killed")

\* C12: a launch of a version whose go/bin/go is absent ends with the
\* not-downloaded message and a non-zero status, having made no request,
\* started no child and run no build; no step of it changes anything under
\* <root>/<version>.
C12_AbsentState ==
    (LaunchCall /\ ~Stat(fs, GoBin(ver))) =>
        /\ pc # "exec"
        /\ child = NoChild
        /\ resp = NoResp
        /\ cursor = Closed
        /\ ~HasAny(trace, FetchEvents \cup VerifyEvents \cup UntarEvents \cup BuildEvents)
        /\ \A m \in made : ~IsUnder(m[1], ver)
        /\ (pc = "done" /\ Dispatched /\ ~Killed) =>
              /\ trace = <<"notDownloaded">>
              /\ printed = <<"gover: not downloaded">>
              /\ status # 0

C12_AbsentStep ==
    (LaunchCall /\ ~Idle /\ ~Stat(fs, GoBin(ver))) =>
        \A p \in Paths : IsUnder(p, ver) => fs'[p] = fs[p]

C12_AbsentLaunchFails == []C12_AbsentState /\ [][C12_AbsentStep]_vars

C12_Witness ==
    /\ LaunchCall
    /\ pc = "done"
    /\ trace = <<"notDownloaded">>
    /\ status = 1
    /\ Stat(fs, GoDir(ver))
    /\ ~Stat(fs, GoBin(ver))

\* C14: the launch path ends after the child has ended; it exits 0 exactly
\* when the child exited 0, exits 1 for every non-zero exit of the child
\* whatever that status was, and ends non-zero with a message when the child
\* could not be started.
C14_LaunchStatus ==
    (LaunchCall /\ Has(trace, "gobin:present")) =>
        /\ (pc = "exec") => child = NoChild
        /\ (pc = "done" /\ ~Killed) =>
              /\ child.kind \in {"exited", "signaled", "nostart"}
              /\ status = 0 <=> (child.kind = "exited" /\ child.code = 0)
              /\ (child.kind = "exited" /\ child.code # 0) => status = 1
              /\ child.kind = "nostart" =>
                    /\ status # 0
                    /\ printed = <<"gover: failed to execute">>

C14_Witness ==
    /\ LaunchCall
    /\ pc = "done"
    /\ child = [kind |-> "exited", code |-> 2]
    /\ status = 1

(***************************************************************************)
(* Claims about the download and list commands, checked under Spec.        *)
(***************************************************************************)
InstallEvents ==
    {"stat:present", "stat:absent", "mkdir:ok", "mkdir:fail", "seek:ok", "seek:fail"}
        \cup FetchEvents \cup VerifyEvents \cup UntarEvents \cup BuildEvents

\* C15: a download process ends with status 0 exactly when installVer
\* returned nil, and prints the success line exactly then; with another
\* number of arguments than three it ends non-zero with the usage line and
\* installVer is not called.
C15_DownloadStatus ==
    InstallCall =>
        /\ pc = "done" => (status = 0 <=> Has(trace, "build:ok"))
        /\ Has(printed, "Success") <=> (pc = "done" /\ status = 0)
        /\ Has(trace, "build:ok") => ver \in okEver
        /\ argc # 3 =>
              /\ pc \in {"goroot", "mkroot", "pledge", "downloadUsage", "done"}
              /\ ~HasAny(trace, InstallEvents)
              /\ (pc = "done" /\ Dispatched /\ ~Killed) =>
                    /\ status # 0
                    /\ trace = <<"usage:download">>
                    /\ printed = <<"gover: usage: gover download [version]">>

C15_Witness ==
    /\ InstallCall
    /\ argc = 4
    /\ pc = "done"
    /\ status = 1
    /\ trace = <<"usage:download">>

\* C16 as stated: when extraction is about to run, the archive file and the
\* signature file are both back at offset 0.
C16_BothRewound ==
    (InstallCall /\ pc = "untar") =>
        /\ cursor.tbz = "start"
        /\ cursor.sig = "start"

\* C16 amended: the check reads both files from offset 0, and when
\* extraction is about to run the archive file is back at offset 0; the
\* signature file has been left where the check stopped reading it.
C16_ArchiveRewound ==
    InstallCall =>
        /\ pc = "verify" => cursor = [tbz |-> "start", sig |-> "start"]
        /\ pc = "seek" => cursor = [tbz |-> "moved", sig |-> "moved"]
        /\ pc = "untar" => cursor = [tbz |-> "start", sig |-> "moved"]

C16_Witness ==
    /\ InstallCall
    /\ pc = "untar"
    /\ trace = <<"stat:absent", "mkdir:ok", "fetchTbz:ok", "fetchSig:ok", "verify:ok", "seek:ok">>
    /\ cursor = [tbz |-> "start", sig |-> "moved"]

\* C17: fetch returns a file only when the whole body is in it and it is
\* back at offset 0, and returns an error when os.Create fails, when the
\* request fails, and when the response is not 2xx, so that an install whose
\* archive request is answered non-2xx stops at that fetch.
C17_FetchFailsOnNon2xx ==
    InstallCall =>
        /\ Has(trace, "fetchTbz:ok") =>
              /\ resp.tbz = "2xx"
              /\ pc = "fetchSig" => (cursor.tbz = "start" /\ fs[GoFP(ver)] \in TbzBodies)
        /\ Has(trace, "fetchSig:ok") =>
              /\ resp.sig = "2xx"
              /\ pc = "verify" => (cursor.sig = "start" /\ fs[AscFP(ver)] \in SigBodies)
        /\ resp.tbz = "non2xx" =>
              /\ Has(trace, "fetchTbz:fail")
              /\ ~HasAny(trace, {"fetchSig:ok", "fetchSig:fail"} \cup VerifyEvents)
        /\ resp.sig = "non2xx" =>
              /\ Has(trace, "fetchSig:fail")
              /\ ~HasAny(trace, VerifyEvents)

\* C18: once dispatched, list writes nothing and makes no request, build or
\* child; it prints the name of every child of the root, each once, in
\* ReadDir's order, and nothing else, and exits 0; when the root cannot be
\* read it prints the error only and exits non-zero.
C18_ListState ==
    (cmd = "list" /\ Dispatched) =>
        /\ resp = NoResp
        /\ child = NoChild
        /\ cursor = Closed
        /\ ~HasAny(trace, InstallEvents)
        /\ pc = "list" => printed = <<>>
        /\ (pc = "done" /\ ~Killed) =>
              /\ trace \in {<<"list:ok">>, <<"list:fail">>}
              /\ status = 0 <=> trace = <<"list:ok">>
              /\ trace = <<"list:fail">> => Len(printed) = 1 /\ printed[1] \notin {"1", "2"}
              /\ trace = <<"list:ok">> =>
                    /\ \A p \in Paths :
                          Len(p) = 1 => (Stat(fs, p) <=> Has(printed, p[1]))
                    /\ \A i \in 1..Len(printed) :
                          \E p \in Paths : Len(p) = 1 /\ p[1] = printed[i] /\ Stat(fs, p)
                    /\ \A i, j \in 1..Len(printed) : i # j => printed[i] # printed[j]

C18_ListStep == (cmd = "list" /\ Dispatched /\ ~Idle) => (fs' = fs /\ made' = made)

Bits(mode, who) == (mode \div who) % 8

\* C20 as stated: every directory the program creates with os.MkdirAll, the
\* root and the version directories, is asked for with no permission bit for
\* group or others.
C20_OwnerOnly ==
    \A m \in made : Bits(m[2], 8) = 0 /\ Bits(m[2], 1) = 0

\* C20 amended: every such directory is asked for with mode 0755, that is
\* all bits for the owner and read and search, but not write, for group and
\* others.
C20_OwnerWrites ==
    \A m \in made :
        /\ Bits(m[2], 64) = 7
        /\ Bits(m[2], 8) = 5
        /\ Bits(m[2], 1) = 5
        /\ m[2] < 512

C20_Witness ==
    /\ InstallCall
    /\ pc = "fetchTbz"
    /\ ver = <<"1", "go">>
    /\ made = {<<<<>>, DirPerm>>, <<<<"1">>, DirPerm>>, <<<<"1", "go">>, DirPerm>>}

(***************************************************************************)
(* Claims about start-up, checked under SpecStart.                         *)
(***************************************************************************)
\* the first non-empty home-directory signal of the platform, <<>> when none
HomeSignal ==
    CASE goos = "plan9" -> homeIn.getenv["home"]
      [] goos = "windows" -> homeIn.getenv["USERPROFILE"]
      [] OTHER ->
           IF homeIn.getenv["HOME"] # <<>> THEN homeIn.getenv["HOME"]
           ELSE IF homeIn.user.err THEN <<>>
           ELSE homeIn.user.HomeDir

\* the process has ended in goroot's error, before any directory or command
EndedUnresolved ==
    /\ pc = "done"
    /\ status # 0
    /\ boot = <<"goroot:fail">>
    /\ root = <<>>
    /\ trace = <<>>
    /\ made = {}
    /\ fs \in RootStates
    /\ printed = <<"gover: failed to get home directory">>

\* C19 as stated: the resolved root is an absolute path, and a process with
\* no home signal ends non-zero before it creates a directory or dispatches.
C19_AbsoluteOrFails ==
    /\ Has(boot, "goroot:ok") => IsAbs(root)
    /\ (pc # "goroot" /\ HomeSignal = <<>>) => EndedUnresolved

\* C19 amended: the resolved root is the home signal joined with sdk/gover,
\* absolute exactly when the signal is; a process ends in goroot's error
\* exactly when it has no home signal, and then it ends non-zero before it
\* creates a directory or dispatches.
C19_HomeOrFails ==
    /\ Has(boot, "goroot:ok") =>
          /\ HomeSignal # <<>>
          /\ root = Join(HomeSignal, <<"sdk", "gover">>)
          /\ root # <<>>
          /\ IsAbs(root) <=> IsAbs(HomeSignal)
    /\ (pc # "goroot" /\ HomeSignal = <<>>) => EndedUnresolved
    /\ Has(boot, "goroot:fail") => HomeSignal = <<>>

C19_Witness ==
    /\ goos = "linux"
    /\ homeIn.getenv["HOME"] = <<>>
    /\ homeIn.getenv["USERPROFILE"] = <<"/", "h">>
    /\ homeIn.user.err
    /\ fs = NoRoot
    /\ EndedUnresolved

(***************************************************************************)
(* Claims about the launch environment, checked under SpecLaunch.          *)
(***************************************************************************)
Launched == envpc = "launched"
First(S) == CHOOSE m \in S : \A n \in S : m <= n
ValueOf(kv) == SubSeq(kv, Index(kv, "=") + 2, Len(kv))
\* the value the process inherited for the variable of kv, "" when it has none
InheritedValue(kv) ==
    IF WithKey(HasKey, ci, env, kv) = {} THEN <<>>
    ELSE ValueOf(env[First(WithKey(HasKey, ci, env, kv))])
IsOverride(kv) == SameKey(ci, kv, <<"GOROOT", "=">>) \/ SameKey(ci, kv, <<"PATH", "=">>)

\* C13: the environment of the child holds one GOROOT entry, with value
\* <root>/<version>/go, and one PATH entry, with value <root>/<version>/go/bin
\* followed, when the inherited PATH is not empty, by the list separator and
\* the inherited PATH; every other inherited variable is there once, with
\* its inherited value, and no other variable is there.
C13_LaunchEnv ==
    Launched =>
        /\ \E g \in 1..Len(out) :
              /\ WithKey(HasKey, ci, out, <<"GOROOT", "=">>) = {g}
              /\ out[g] = <<"GOROOT", "=", "/", "h", "sdk", "gover">> \o ver \o <<"go">>
        /\ \E p \in 1..Len(out) :
              /\ WithKey(HasKey, ci, out, <<"PATH", "=">>) = {p}
              /\ out[p] = <<"PATH", "=", "/", "h", "sdk", "gover">> \o ver \o <<"go", "bin">>
                            \o (IF InheritedValue(<<"PATH", "=">>) = <<>> THEN <<>>
                                ELSE <<IF goos = "windows" THEN ";" ELSE ":">>
                                        \o InheritedValue(<<"PATH", "=">>))
        /\ \A i \in 1..Len(env) :
              (HasKey(env[i]) /\ ~IsOverride(env[i])) =>
                  \E j \in 1..Len(out) :
                      /\ WithKey(HasKey, ci, out, env[i]) = {j}
                      /\ TextBeforeEq(out[j]) = TextBeforeEq(env[First(WithKey(HasKey, ci, env, env[i]))])
                      /\ ValueOf(out[j]) = InheritedValue(env[i])
        /\ \A j \in 1..Len(out) :
              (HasKey(out[j]) /\ ~IsOverride(out[j])) => WithKey(HasKey, ci, env, out[j]) # {}

C13_Witness ==
    /\ Launched
    /\ goos = "linux"
    /\ ver = <<"1">>
    /\ env = << <<"PATH", "=", "/bin">>, <<"PATH", "=", "/usr">>, <<"GOROOT", "=", "/old">> >>
    /\ out = << <<"PATH", "=", "/", "h", "sdk", "gover", "1", "go", "bin", ":", "/bin">>,
                <<"GOROOT", "=", "/", "h", "sdk", "gover", "1", "go">> >>

(***************************************************************************)
(* Claims about errors, order and start-up, checked under Spec.            *)
(***************************************************************************)
\* C21: every failure inside install is printed with the operation that
\* failed: the line of a failed fetch, of a failed check, of a failed
\* extraction and of a failed build differ, and the line that reports a
\* verification failure is printed only when the signature check ran and
\* rejected the files.
C21_ErrorsNameTheOperation ==
    InstallCall =>
        /\ Has(printed, "gover: failed to verify") => Has(trace, "verify:fail")
        /\ HasAny(trace, {"fetchTbz:fail", "fetchSig:fail", "seek:fail", "untar:fail"})
              => ~Has(printed, "gover: failed to verify")
        /\ HasAny(trace, {"build:fail", "build:nostart"})
              => Has(printed, "gover: failed to build go")

Steps ==
    <<"stat:absent", "mkdir:ok", "fetchTbz:ok", "fetchSig:ok", "verify:ok", "seek:ok",
      "untar:ok", "build:ok">>
FailureOf(e) ==
    CASE e = "mkdir:ok" -> "mkdir:fail"
      [] e = "fetchTbz:ok" -> "fetchTbz:fail"
      [] e = "fetchSig:ok" -> "fetchSig:fail"
      [] e = "verify:ok" -> "verify:fail"
      [] e = "seek:ok" -> "seek:fail"
      [] e = "untar:ok" -> "untar:fail"
      [] e = "build:ok" -> "build:fail"
      [] OTHER -> "none"
\* t is the first n steps done, or the first n - 1 done and the n-th failed
InOrder(t, n) ==
    /\ Len(t) = n
    /\ \A i \in 1..(n - 1) : t[i] = Steps[i]
    /\ n > 0 => t[n] \in {Steps[n], FailureOf(Steps[n])}
PcAfter(e) ==
    CASE e = "stat:absent" -> "mkdir"
      [] e = "mkdir:ok" -> "fetchTbz"
      [] e = "fetchTbz:ok" -> "fetchSig"
      [] e = "fetchSig:ok" -> "verify"
      [] e = "verify:ok" -> "seek"
      [] e = "seek:ok" -> "untar"
      [] e = "untar:ok" -> "build"
      [] OTHER -> "done"

\* C22: an install call that finds no unpacked tree takes its steps in the
\* order create directory, fetch archive, fetch signature, verify, rewind,
\* extract, build; a step starts only after the one before it succeeded,
\* the first failure ends the call with an error, and no step is taken
\* twice.
C22_StepsInOrder ==
    /\ (InstallCall /\ Has(trace, "stat:present") /\ ~Killed) =>
          \/ trace = <<"stat:present">> /\ pc = "build"
          \/ /\ Len(trace) = 2
             /\ trace[1] = "stat:present"
             /\ trace[2] \in BuildEvents
             /\ pc = "done"
    /\ (InstallCall /\ Has(trace, "stat:absent") /\ ~Killed) =>
        /\ \E n \in 1..Len(Steps) : InOrder(trace, n)
        /\ pc = PcAfter(trace[Len(trace)])
        /\ \A e \in InstallEvents : Count(trace, e) <= 1
        /\ (pc = "done" /\ trace[Len(trace)] # "build:ok") => status = 1

C22_Witness ==
    /\ InstallCall
    /\ pc = "done"
    /\ status = 1
    /\ trace = <<"stat:absent", "mkdir:ok", "fetchTbz:ok", "fetchSig:fail">>

\* C23: installVer returns nil only after one run of the build script that
\* exited zero, and then the version directory holds go/bin/go; a run that
\* exits non-zero or cannot be started makes the process end non-zero with
\* the build error, and the script is not run again.
C23_SuccessMeansBuilt ==
    InstallCall =>
        /\ Count(trace, "build:ok") + Count(trace, "build:fail") + Count(trace, "build:nostart") <= 1
        /\ (pc = "done" /\ status = 0) =>
              /\ trace[Len(trace)] = "build:ok"
              /\ fs[GoBin(ver)] = "exe"
              /\ fs[MakeScript(ver)] = "script"
        /\ HasAny(trace, {"build:fail", "build:nostart"}) =>
              /\ pc = "done"
              /\ status = 1
              /\ printed[Len(printed)] = "gover: failed to build go"
              /\ ~Has(printed, "Success")

C23_Witness ==
    /\ InstallCall
    /\ pc = "done"
    /\ status = 1
    /\ Has(trace, "untar:ok")
    /\ trace[Len(trace)] = "build:fail"
    /\ ~Stat(fs, GoBin(ver))

\* C24: start-up takes the steps resolve, create, pledge and unveil, in
\* that order and each at most once, before any step of a command; a
\* command runs only with the root in place, and a failure to resolve or to
\* create the root ends the process non-zero with no step of a command.
C24_StartupOrder ==
    /\ \/ boot \in {<<>>, <<"goroot:ok">>, <<"goroot:ok", "mkroot:ok">>,
                     <<"goroot:ok", "mkroot:ok", "pledge">>}
       \/ /\ boot \in {<<"goroot:fail">>, <<"goroot:ok", "mkroot:fail">>}
          /\ pc = "done"
          /\ status = 1
          /\ trace = <<>>
          /\ resp = NoResp
          /\ child = NoChild
    /\ Has(boot, "mkroot:ok") => fs[<<>>] = "dir"
    /\ ~Dispatched =>
          /\ trace \in {<<>>, <<"killed">>}
          /\ resp = NoResp
          /\ child = NoChild
          /\ cursor = Closed
          /\ \A m \in made : m[1] = <<>>
    /\ (pc \notin {"idle", "off", "goroot", "mkroot", "pledge", "done"}) =>
          (Dispatched /\ fs[<<>>] = "dir" /\ root # <<>>)

C24_Witness ==
    /\ boot = <<"goroot:ok", "mkroot:fail">>
    /\ pc = "done"
    /\ status = 1
    /\ cmd = "download"
    /\ fs[<<>>] = "none"

(***************************************************************************)
(* Claims about the dispatcher, checked under SpecOnce.                    *)
(***************************************************************************)
ListEvents == {"list:ok", "list:fail"}
LaunchEvents == {"gobin:present", "notDownloaded", "exec:ok", "exec:exitError", "exec:nostart"}

\* the events, the positions and the last events of the branch of main
BranchEvents(b) ==
    CASE b = "usage" -> {"usage"}
      [] b = "downloadUsage" -> {"usage:download"}
      [] b = "installVer" -> InstallEvents
      [] b = "list" -> ListEvents
      [] OTHER -> LaunchEvents
BranchPcs(b) ==
    CASE b = "usage" -> {"usage"}
      [] b = "downloadUsage" -> {"downloadUsage"}
      [] b = "installVer" ->
            {"installVer", "mkdir", "fetchTbz", "fetchSig", "verify", "seek", "untar", "build"}
      [] b = "list" -> {"list"}
      [] OTHER -> {"launchStat", "exec"}
BranchEnds(b) ==
    CASE b = "usage" -> {"usage"}
      [] b = "downloadUsage" -> {"usage:download"}
      [] b = "installVer" ->
            {"mkdir:fail", "fetchTbz:fail", "fetchSig:fail", "verify:fail", "seek:fail",
             "untar:fail"} \cup BuildEvents
      [] b = "list" -> ListEvents
      [] OTHER -> {"notDownloaded", "exec:ok", "exec:exitError", "exec:nostart"}

OneBranch ==
    /\ \A i \in 1..Len(trace) : trace[i] \in BranchEvents(Entry) \cup {"killed"}
    /\ (Dispatched /\ pc # "done") => pc \in BranchPcs(Entry)
    /\ (trace # <<>>) => Dispatched \/ Killed
    /\ (pc = "done" /\ Dispatched /\ ~Killed) =>
          /\ trace # <<>>
          /\ trace[Len(trace)] \in BranchEnds(Entry)
          /\ \A i \in 1..(Len(trace) - 1) : trace[i] \notin BranchEnds(Entry)
          /\ status \in {0, 1}
    /\ (pc = "done") => status \in {0, 1, 2}

C26_SameSignal ==
    \A v \in Versions : Stat(fs, GoDir(v)) <=> Stat(fs, GoBin(v))

\* C26: installVer takes a version as present exactly when <root>/V/go
\* exists, the launch path accepts it exactly when <root>/V/go/bin/go
\* exists; what the launch path accepts installVer takes as present.
C26_TwoSignals ==
    /\ \A v \in Versions : Stat(fs, GoBin(v)) => Stat(fs, GoDir(v))
    /\ (InstallCall /\ trace = <<"stat:present">>) => Stat(fs, GoDir(ver))
    /\ (InstallCall /\ trace = <<"stat:absent">>) =>
          (~Stat(fs, GoDir(ver)) /\ ~Stat(fs, GoBin(ver)))
    /\ (LaunchCall /\ Has(trace, "gobin:present")) =>
          (Stat(fs, GoBin(ver)) /\ Stat(fs, GoDir(ver)))
    /\ (LaunchCall /\ Has(trace, "notDownloaded")) => ~Stat(fs, GoBin(ver))

C26_Witness ==
    /\ InstallCall
    /\ trace = <<"stat:present">>
    /\ pc = "build"
    /\ Stat(fs, GoDir(ver))
    /\ ~Stat(fs, GoBin(ver))

\* C27: every name list prints is the name of a version whose go/bin/go
\* exists, so that the launch path accepts it.
C27_ListPrintsInstalled ==
    (cmd = "list" /\ pc = "done" /\ trace = <<"list:ok">>) =>
        \A i \in 1..Len(printed) : Stat(fs, GoBin(<<printed[i]>>))

====
